---- MODULE Spec2Model ----
(***************************************************************************)
(* Model of src/app.py: the Flask adapter that drives the console script   *)
(* arquivo-base-fixed.py ("the engine") through POST /api/analyze.         *)
(*                                                                         *)
(* Text is modelled as a sequence of tokens.  "_" is one whitespace        *)
(* character, "a" and "b" are ordinary characters, "7" and "9" are digits, *)
(* and "http://", "https://", "ftp://", "HTTP://" are the character runs   *)
(* of that spelling, so that str.strip(), str.startswith() and "+" are     *)
(* computed the way Python computes them.                                  *)
(*                                                                         *)
(* The process-wide objects are builtins.input, sys.stdout and the current *)
(* working directory.  A worker thread t that is inside run_analysis owns  *)
(* a closure mock_input and a buffer stdout_capture; both are named by t.  *)
(***************************************************************************)
EXTENDS Integers, Sequences, FiniteSets, TLC

\* ------------------------------------------------------------------ bounds
\* engine steps (prompt, print, export) per operation with one worker
MaxSteps == 2
\* engine steps of all operations together when two workers run in the same
\* process
MaxStepsConc == 1
\* requests one worker serves one after the other
MaxRequests == 2

Threads == {"t1", "t2"}

\* ------------------------------------------------------------------ text
WS == "_"
Schemes == {"http://", "https://", "ftp://", "HTTP://"}

RECURSIVE LStrip(_)
LStrip(s) == IF s # <<>> /\ Head(s) = WS THEN LStrip(Tail(s)) ELSE s

RECURSIVE RStrip(_)
RStrip(s) ==
    IF s # <<>> /\ s[Len(s)] = WS THEN RStrip(SubSeq(s, 1, Len(s) - 1)) ELSE s

\* str.strip()
Strip(s) == RStrip(LStrip(s))

\* s.startswith(("http://", "https://"))
StartsWithHttp(s) == s # <<>> /\ Head(s) \in {"http://", "https://"}

\* if not s.startswith(("http://", "https://")): s = "https://" + s
WithSchemeAlways(s) == <<"https://">> \o s
WithScheme(s) == IF StartsWithHttp(s) THEN s ELSE <<"https://">> \o s

\* ------------------------------------------------------------------ JSON
\* A JSON value: kind "absent" is a key that is not there.  A number is
\* held in tenths (85 is 8.5), a bool as n = 1 / n = 0.
JV(kind, s, n) == [kind |-> kind, s |-> s, n |-> n]
JAbsent == JV("absent", <<>>, 0)
JNull == JV("null", <<>>, 0)
JTrue == JV("bool", <<>>, 1)
JFalse == JV("bool", <<>>, 0)
JNum(n) == JV("num", <<>>, n)
JStr(s) == JV("str", s, 0)

\* Python truthiness of a value obtained with dict.get(key)
Truthy(v) ==
    CASE v.kind = "bool" -> v.n = 1
      [] v.kind = "num" -> v.n # 0
      [] v.kind = "str" -> v.s # <<>>
      [] OTHER -> FALSE

\* int(x): [ok, n] on success, [ok = FALSE, msg] when it raises
DigitTokens == {"7", "9"}
DigitVal(tok) == IF tok = "7" THEN 7 ELSE 9
IntTrunc(n) == IF n >= 0 THEN n \div 10 ELSE -((-n) \div 10)
PyInt(v) ==
    CASE v.kind \in {"bool"} -> [ok |-> TRUE, n |-> v.n, msg |-> ""]
      [] v.kind = "num" -> [ok |-> TRUE, n |-> IntTrunc(v.n), msg |-> ""]
      [] v.kind = "str" /\ Len(Strip(v.s)) = 1 /\ Strip(v.s)[1] \in DigitTokens ->
            [ok |-> TRUE, n |-> DigitVal(Strip(v.s)[1]), msg |-> ""]
      [] v.kind = "str" ->
            [ok |-> FALSE, n |-> 0, msg |-> "invalid literal for int() with base 10"]
      [] OTHER ->
            [ok |-> FALSE, n |-> 0,
             msg |-> "int() argument must be a string, a bytes-like object or a real number, not 'NoneType'"]

\* ------------------------------------------------------------------ errors
\* The third element of run_analysis' result and the "error" field of a
\* response: None, or a string (text, with the selector appended when n # 0)
ErrNone == [k |-> "none", text |-> "", n |-> 0]
ErrStr(text) == [k |-> "str", text |-> text, n |-> 0]
\* f"Opção inválida: {option}"
ErrInvalidOption(option) == [k |-> "str", text |-> "Opcao invalida: ", n |-> option]
\* `if err:`
ErrTruthy(err) == err.k = "str" /\ err.text # ""

\* ------------------------------------------------------------------ responses
\* jsonify(...), status: `keys` are the keys of the JSON object
NoResp == [status |-> 0, keys |-> {}, output |-> <<>>, exports |-> <<>>, error |-> ErrNone]
RespError(status, msg) ==
    [status |-> status, keys |-> {"error"}, output |-> <<>>, exports |-> <<>>,
     error |-> ErrStr(msg)]
RespFull(output, exps, err) ==
    [status |-> 200, keys |-> {"output", "exports", "error"}, output |-> output,
     exports |-> exps, error |-> err]

\* lines 182-193: the response analyze builds from run_analysis' result
AnalyzeResponse(output_text, exps, err) ==
    IF ErrTruthy(err)
    THEN RespFull(output_text, <<>>, err)
    ELSE RespFull(output_text, exps, ErrNone)

\* ------------------------------------------------------------------ analyze

\* params.get(key): params is the object of the body, absent ({} by default)
\* or null (None has no .get)
ParamsGet(params, key) == IF params.kind = "map" THEN params[key] ELSE JAbsent

\* (params.get(key) or "").strip()
StrParam(params, key) ==
    LET v == ParamsGet(params, key) IN
    CASE params.kind = "null" ->
            [ok |-> FALSE, s |-> <<>>, msg |-> "'NoneType' object has no attribute 'get'"]
      [] Truthy(v) /\ v.kind = "num" ->
            [ok |-> FALSE, s |-> <<>>, msg |-> "'int' object has no attribute 'strip'"]
      [] Truthy(v) /\ v.kind = "bool" ->
            [ok |-> FALSE, s |-> <<>>, msg |-> "'bool' object has no attribute 'strip'"]
      [] Truthy(v) -> [ok |-> TRUE, s |-> Strip(v.s), msg |-> ""]
      [] OTHER -> [ok |-> TRUE, s |-> <<>>, msg |-> ""]

\* "s" if include_sub else "n"
SubAnswer(include_sub) == IF Truthy(include_sub) THEN <<"s">> ELSE <<"n">>

Rejected(resp) == [kind |-> "resp", resp |-> resp, option |-> 0, input_responses |-> <<>>]
Accepted(option, input_responses) ==
    [kind |-> "call", resp |-> NoResp, option |-> option, input_responses |-> input_responses]

\* lines 135-142 and 168-175
SiteBranch(option, params) ==
    LET d == StrParam(params, "domain_url") IN
    CASE ~d.ok -> Rejected(RespError(500, d.msg))
      [] d.s = <<>> -> Rejected(RespError(400, "domain_url e obrigatorio"))
      [] OTHER ->
            Accepted(option,
                     <<WithScheme(d.s), SubAnswer(ParamsGet(params, "include_subdomains"))>>)

\* lines 143-147 and 155-159
TextBranch(option, params, key) ==
    LET d == StrParam(params, key) IN
    CASE ~d.ok -> Rejected(RespError(500, d.msg))
      [] d.s = <<>> ->
            Rejected(RespError(400, IF key = "niche" THEN "niche e obrigatorio"
                                                     ELSE "keyword e obrigatorio"))
      [] OTHER -> Accepted(option, <<d.s>>)

\* lines 148-154
UrlBranch(option, params) ==
    LET d == StrParam(params, "url") IN
    CASE ~d.ok -> Rejected(RespError(500, d.msg))
      [] d.s = <<>> -> Rejected(RespError(400, "url e obrigatorio"))
      [] OTHER -> Accepted(option, <<WithScheme(d.s)>>)

\* lines 160-167
ThemeBranch(option, params) ==
    LET d == StrParam(params, "domain_url")
        th == StrParam(params, "theme") IN
    CASE ~d.ok -> Rejected(RespError(500, d.msg))
      [] ~th.ok -> Rejected(RespError(500, th.msg))
      [] d.s = <<>> \/ th.s = <<>> ->
            Rejected(RespError(400, "domain_url e theme sao obrigatorios"))
      [] OTHER -> Accepted(option, <<WithScheme(d.s), th.s>>)

\* lines 130-179 and 194-195: what analyze does with the JSON body before
\* it calls run_analysis.  `data` is request.get_json() or {}.
AnalyzeValidate(data) ==
    LET optv == IF data.body = "object" /\ data.option.kind # "absent"
                THEN data.option ELSE JNum(0)
        o == PyInt(optv)
        params == IF data.body = "object" THEN data.params
                  ELSE [data.params EXCEPT !.kind = "absent"] IN
    CASE ~o.ok -> Rejected(RespError(500, o.msg))
      [] o.n \in {1, 6} -> SiteBranch(o.n, params)
      [] o.n = 2 -> TextBranch(2, params, "niche")
      [] o.n = 3 -> UrlBranch(3, params)
      [] o.n = 4 -> TextBranch(4, params, "keyword")
      [] o.n = 5 -> ThemeBranch(5, params)
      [] o.n \in {7, 8} -> Accepted(o.n, <<>>)
      [] OTHER -> Rejected(RespError(400, "option deve ser entre 1 e 8"))

\* ------------------------------------------------------------------ inputs
UrlTexts ==
    {<<>>, <<"_">>, <<"a">>, <<"_", "a", "_">>, <<"https://", "a">>,
     <<"_", "http://", "a">>, <<"ftp://", "a">>, <<"HTTP://", "a">>}
PlainTexts == {<<>>, <<"_">>, <<"b">>, <<"_", "b">>}

UrlValues == {JAbsent, JNull, JNum(50)} \cup {JStr(s) : s \in UrlTexts}
PlainValues == {JAbsent, JNull, JTrue} \cup {JStr(s) : s \in PlainTexts}
SubValues == {JAbsent, JNull, JTrue, JFalse, JStr(<<"n">>)}

OptionValues ==
    {JAbsent, JNull, JTrue, JStr(<<"_", "7">>), JStr(<<"a">>), JNum(85), JNum(5), JNum(-10)}
    \cup {JNum(10 * n) : n \in 0..9}

NoParams(kind) ==
    [kind |-> kind, domain_url |-> JAbsent, include_subdomains |-> JAbsent,
     niche |-> JAbsent, url |-> JAbsent, keyword |-> JAbsent, theme |-> JAbsent]

\* The params objects sent with a selector: the keys that selector reads
ParamsFor(n) ==
    {NoParams("absent"), NoParams("null")} \cup
    CASE n \in {1, 6} ->
            {[NoParams("map") EXCEPT !.domain_url = d, !.include_subdomains = i] :
                d \in UrlValues, i \in SubValues}
      [] n = 2 -> {[NoParams("map") EXCEPT !.niche = d] : d \in PlainValues}
      [] n = 3 -> {[NoParams("map") EXCEPT !.url = d] : d \in UrlValues}
      [] n = 4 -> {[NoParams("map") EXCEPT !.keyword = d] : d \in PlainValues}
      [] n = 5 ->
            {[NoParams("map") EXCEPT !.domain_url = d, !.theme = th] :
                d \in UrlValues, th \in PlainValues}
      [] OTHER -> {NoParams("map")}

Requests ==
    {[body |-> "empty", option |-> JAbsent, params |-> NoParams("absent")]} \cup
    UNION {{[body |-> "object", option |-> ov, params |-> p] :
                p \in ParamsFor(IF PyInt(ov).ok THEN PyInt(ov).n ELSE 0)} :
           ov \in OptionValues}

\* The requests two workers of one process serve at the same time
ConcRequests ==
    {[body |-> "object", option |-> JNum(20),
      params |-> [NoParams("map") EXCEPT !.niche = JStr(<<"b">>)]]}

\* run_analysis called directly: (option, input_responses)
DirectCalls ==
    {[option |-> n, input_responses |-> q] :
        n \in {0, 2, 7, 9}, q \in {<<>>, <<<<"_", "a", "_">>>>, <<<<"a">>, <<"b", "_">>>>}}
ConcDirectCalls == {[option |-> 9, input_responses |-> <<>>]}

\* ------------------------------------------------------------------ state
VARIABLES
    th,              \* per worker thread: the locals of analyze / run_analysis
    builtins_input,  \* builtins.input: "real", a live call's mock_input, "stale"
    sys_stdout,      \* sys.stdout: "console", a live call's stdout_capture, "stale"
    cwd,             \* os.getcwd(): "start" or "APP_DIR"
    console,         \* the threads whose engine printed on the real console
    workers,         \* the worker threads the deployment runs in this process
    app_dir_ok,      \* whether os.chdir(APP_DIR) succeeds
    served,          \* the number of requests received so far
    active,          \* history: the calls that hold redirections, oldest first
    lifo             \* history: redirections were installed and removed in stack order

vars == <<th, builtins_input, sys_stdout, cwd, console, workers, app_dir_ok, served,
          active, lifo>>

NoData == [body |-> "empty", option |-> JAbsent, params |-> NoParams("absent")]
NoResult == [kind |-> "none", output |-> <<>>, exports |-> <<>>, error |-> ErrNone]

\* The locals of a worker that is between requests and has served none
Idle ==
    [pc |-> "idle", via |-> "none", data |-> NoData, option |-> 0,
     input_responses |-> <<>>,
     input_queue |-> <<>>, stdout_capture |-> <<>>, exports |-> <<>>,
     original_input |-> "real", old_stdout |-> "console", old_cwd |-> "start",
     steps |-> 0, exit |-> "none", exc_msg |-> "", exc_output |-> <<>>,
     pop_from |-> "real",
     result |-> NoResult, resp |-> NoResp,
     \* history, for the properties
     loaded |-> FALSE, op_called |-> FALSE, restores |-> 0,
     answers |-> <<>>, delivered |-> <<>>, printed |-> <<>>,
     pre |-> [input |-> "real", stdout |-> "console", cwd |-> "start"]]

\* lines 49-51: the locals of a fresh run_analysis call
NewCall(via, data, option, input_responses) ==
    [Idle EXCEPT !.pc = "load", !.via = via, !.data = data, !.option = option,
                 !.input_responses = input_responses,
                 !.input_queue = input_responses,
                 !.pre = [input |-> builtins_input, stdout |-> sys_stdout, cwd |-> cwd]]

OneWorker == Cardinality(workers) = 1
RECURSIVE StepsOf(_)
StepsOf(S) ==
    IF S = {} THEN 0 ELSE LET t == CHOOSE x \in S : TRUE IN th[t].steps + StepsOf(S \ {t})
\* the engine of t may take another step
MayStep(t) == IF OneWorker THEN th[t].steps < MaxSteps ELSE StepsOf(Threads) < MaxStepsConc
\* with several workers, each serves one request
Budget == IF OneWorker THEN MaxRequests ELSE Cardinality(workers)

InitCommon ==
    /\ th = [t \in Threads |-> Idle]
    /\ builtins_input = "real"
    /\ sys_stdout = "console"
    /\ cwd = "start"
    /\ console = {}
    /\ served = 0
    /\ active = <<>>
    /\ lifo = TRUE

\* one worker handles one request at a time
Init == InitCommon /\ workers = {"t1"} /\ app_dir_ok \in BOOLEAN
\* a threaded server: the workers run in the same process
InitConc == InitCommon /\ workers = Threads /\ app_dir_ok = TRUE

\* ------------------------------------------------------------------ analyze
\* POST /api/analyze, lines 130-181: validation, then the call of run_analysis
Receive(t) ==
    /\ t \in workers
    /\ th[t].pc = "idle"
    /\ served < Budget
    /\ served' = served + 1
    /\ \E data \in (IF OneWorker THEN Requests ELSE ConcRequests) :
          LET v == AnalyzeValidate(data) IN
          th' = [th EXCEPT ![t] =
                    IF v.kind = "resp"
                    THEN [Idle EXCEPT !.pc = "done", !.via = "http", !.data = data,
                                      !.resp = v.resp]
                    ELSE NewCall("http", data, v.option, v.input_responses)]
    /\ UNCHANGED <<builtins_input, sys_stdout, cwd, console, workers, app_dir_ok,
                   active, lifo>>

\* run_analysis(option, input_responses) called by other code than analyze
CallDirect(t) ==
    /\ t \in workers
    /\ th[t].pc = "idle"
    /\ served < Budget
    /\ served' = served + 1
    /\ \E c \in (IF OneWorker THEN DirectCalls ELSE ConcDirectCalls) :
          th' = [th EXCEPT ![t] = NewCall("direct", NoData, c.option, c.input_responses)]
    /\ UNCHANGED <<builtins_input, sys_stdout, cwd, console, workers, app_dir_ok,
                   active, lifo>>

\* ------------------------------------------------------------------ run_analysis
\* lines 62-67: load and execute the engine module, patch its export routines.
\* exec_module may raise; nothing is redirected yet and nothing is caught here.
LoadEngine(t) ==
    /\ th[t].pc = "load"
    /\ \E ok \in BOOLEAN :
          th' = [th EXCEPT ![t] =
                    IF ok
                    THEN [@ EXCEPT !.pc = "l69", !.loaded = TRUE]
                    ELSE [@ EXCEPT !.pc = "ret", !.exit = "loadfail",
                                   !.exc_msg = "engine module failed to load"]]
    /\ UNCHANGED <<builtins_input, sys_stdout, cwd, console, workers, app_dir_ok, served,
                   active, lifo>>

\* the engine operation of every call below the newest is running
Nested == \A i \in 1..Len(active) : th[active[i]].pc \in {"dispatch", "op", "pop"}

\* line 69: original_input = builtins.input
SaveInput(t) ==
    /\ th[t].pc = "l69"
    /\ th' = [th EXCEPT ![t] = [@ EXCEPT !.pc = "l70", !.original_input = builtins_input]]
    /\ active' = Append(active, t)
    /\ lifo' = (lifo /\ Nested)
    /\ UNCHANGED <<builtins_input, sys_stdout, cwd, console, workers, app_dir_ok, served>>

\* line 70: builtins.input = mock_input
InstalledInput(t) == t
InstallInput(t) ==
    /\ th[t].pc = "l70"
    /\ builtins_input' = InstalledInput(t)
    /\ th' = [th EXCEPT ![t] = [@ EXCEPT !.pc = "l71"]]
    /\ UNCHANGED <<sys_stdout, cwd, console, workers, app_dir_ok, served, active, lifo>>

\* line 71: old_stdout = sys.stdout
SaveStdout(t) ==
    /\ th[t].pc = "l71"
    /\ th' = [th EXCEPT ![t] = [@ EXCEPT !.pc = "l72", !.old_stdout = sys_stdout]]
    /\ UNCHANGED <<builtins_input, sys_stdout, cwd, console, workers, app_dir_ok, served,
                   active, lifo>>

\* line 72: sys.stdout = stdout_capture
InstallStdout(t) ==
    /\ th[t].pc = "l72"
    /\ sys_stdout' = t
    /\ th' = [th EXCEPT ![t] = [@ EXCEPT !.pc = "l73"]]
    /\ UNCHANGED <<builtins_input, cwd, console, workers, app_dir_ok, served, active, lifo>>

\* line 73: old_cwd = os.getcwd()
SaveCwd(t) ==
    /\ th[t].pc = "l73"
    /\ th' = [th EXCEPT ![t] = [@ EXCEPT !.pc = "l75", !.old_cwd = cwd]]
    /\ UNCHANGED <<builtins_input, sys_stdout, cwd, console, workers, app_dir_ok, served,
                   active, lifo>>

\* try: os.chdir(target) except OSError: pass.  The directory the process
\* started in stays accessible; APP_DIR is accessible or not (app_dir_ok).
Chdir(target) == IF target = "APP_DIR" /\ ~app_dir_ok THEN cwd ELSE target

\* lines 74-77
EnterAppDir(t) ==
    /\ th[t].pc = "l75"
    /\ cwd' = Chdir("APP_DIR")
    /\ th' = [th EXCEPT ![t] = [@ EXCEPT !.pc = "dispatch"]]
    /\ UNCHANGED <<builtins_input, sys_stdout, console, workers, app_dir_ok, served, active, lifo>>

\* The statement that runs when the try body (lines 79-99) is left:
\* the finally block, on every way out
AfterTrySkipsInvalid(exit) == IF exit = "invalid" THEN "ret" ELSE "l101"
AfterTry(exit) == "l101"

\* lines 80-97: the if/elif chain; the else branch returns the error triple
ValidOptions == 1..8
Dispatch(t) ==
    /\ th[t].pc = "dispatch"
    /\ th' = [th EXCEPT ![t] =
                 IF th[t].option \in ValidOptions
                 THEN [@ EXCEPT !.pc = "op", !.op_called = TRUE]
                 ELSE [@ EXCEPT !.pc = AfterTry("invalid"), !.exit = "invalid"]]
    /\ UNCHANGED <<builtins_input, sys_stdout, cwd, console, workers, app_dir_ok, served,
                   active, lifo>>

\* ------------------------------------------------------------------ the hooks
\* line 54: `if input_queue:`
MockInputHasAnswer(input_queue) == input_queue # <<>>
\* line 55: input_queue.popleft().strip()
MockInputAnswerFromBack(input_queue) == Strip(input_queue[Len(input_queue)])
MockInputAnswer(input_queue) == Strip(Head(input_queue))
\* line 56: return ""
MockInputDefault == <<>>

\* lines 58-60: mock_save_to_csv_simple
MockSave(exps, data, filename) == Append(exps, [filename |-> filename, data |-> data])

Answer(src, val) == [src |-> src, val |-> val]

\* ------------------------------------------------------------------ the engine
\* The operation run_analysis dispatched to (lines 80-95) is running.  What
\* the engine does is not in app.py; it is modelled by its calls on the
\* intercepted surface: input(), print(), the export routine, return, raise.

\* the engine calls input(): whatever builtins.input is now runs up to line 54
EnginePrompt(t) ==
    /\ th[t].pc = "op"
    /\ MayStep(t)
    /\ LET f == builtins_input IN
       th' = [th EXCEPT ![t] =
                 CASE f \in {"real", "stale"} ->
                        [@ EXCEPT !.steps = @ + 1,
                                  !.answers = Append(@, Answer(f, MockInputDefault))]
                   [] MockInputHasAnswer(th[f].input_queue) ->
                        [@ EXCEPT !.pc = "pop", !.pop_from = f]
                   [] OTHER ->
                        [@ EXCEPT !.steps = @ + 1,
                                  !.answers = Append(@, Answer(f, MockInputDefault))]]
    /\ UNCHANGED <<builtins_input, sys_stdout, cwd, console, workers, app_dir_ok, served,
                   active, lifo>>

\* line 55 of the mock_input the prompt reached.  deque.popleft() on a queue
\* another prompt has emptied since line 54 raises IndexError in the engine.
\* The queue of a call that has returned is not kept: its answer is not tracked.
MockPop(t) ==
    /\ th[t].pc = "pop"
    /\ LET u == th[t].pop_from IN
       th' =
         CASE u = "stale" ->
                [th EXCEPT ![t] = [@ EXCEPT !.pc = "op", !.steps = @ + 1,
                                            !.answers = Append(@, Answer(u, MockInputDefault))]]
           [] th[u].input_queue = <<>> ->
                [th EXCEPT ![t] = [@ EXCEPT !.pc = AfterTry("raised"), !.exit = "raised",
                                            !.exc_msg = "pop from an empty deque",
                                            !.exc_output = th[t].stdout_capture]]
           [] OTHER ->
                [v \in Threads |->
                    LET r1 == IF v = u
                              THEN [th[v] EXCEPT
                                       !.input_queue = Tail(@),
                                       !.delivered =
                                           Append(@, MockInputAnswer(th[u].input_queue))]
                              ELSE th[v] IN
                    IF v = t
                    THEN [r1 EXCEPT !.pc = "op", !.steps = @ + 1,
                                    !.answers =
                                        Append(@, Answer(u, MockInputAnswer(th[u].input_queue)))]
                    ELSE r1]
    /\ UNCHANGED <<builtins_input, sys_stdout, cwd, console, workers, app_dir_ok, served,
                   active, lifo>>

\* the engine prints: the text goes to whatever sys.stdout is now
EnginePrint(t) ==
    /\ th[t].pc = "op"
    /\ MayStep(t)
    /\ LET sink == sys_stdout IN
       /\ th' = [v \in Threads |->
                    LET r1 == IF v = sink
                              THEN [th[v] EXCEPT !.stdout_capture = Append(@, t)]
                              ELSE th[v] IN
                    IF v = t
                    THEN [r1 EXCEPT !.steps = @ + 1, !.printed = Append(@, t)]
                    ELSE r1]
       /\ console' = IF sink = "console" THEN console \cup {t} ELSE console
    /\ UNCHANGED <<builtins_input, sys_stdout, cwd, workers, app_dir_ok, served, active, lifo>>

\* the engine calls save_to_csv_simple / save_to_csv_simple_pruning of its own
\* module object, which lines 66-67 replaced by mock_save_to_csv_simple
EngineExport(t) ==
    /\ th[t].pc = "op"
    /\ MayStep(t)
    /\ th' = [th EXCEPT ![t] =
                 [@ EXCEPT !.steps = @ + 1,
                           !.exports = MockSave(@, Len(@) + 1, "export.csv")]]
    /\ UNCHANGED <<builtins_input, sys_stdout, cwd, console, workers, app_dir_ok, served,
                   active, lifo>>

\* the operation returns: the try body is left at the end of the if chain
EngineReturn(t) ==
    /\ th[t].pc = "op"
    /\ th' = [th EXCEPT ![t] = [@ EXCEPT !.pc = AfterTry("normal"), !.exit = "normal"]]
    /\ UNCHANGED <<builtins_input, sys_stdout, cwd, console, workers, app_dir_ok, served,
                   active, lifo>>

\* the operation raises.  An Exception reaches lines 98-99, where the return
\* value is built (getvalue() is read here, before the finally block); a
\* BaseException that is no Exception (SystemExit, KeyboardInterrupt) does not.
ExceptionClasses == {"Exception", "BaseException"}
EngineMessages == {"", "boom"}
\* what the operations raise: with two workers, one representative
Raises ==
    IF OneWorker THEN ExceptionClasses \X EngineMessages ELSE {<<"Exception", "boom">>}
EngineRaise(t) ==
    /\ th[t].pc = "op"
    /\ \E e \in Raises :
          th' = [th EXCEPT ![t] =
                    IF e[1] = "Exception"
                    THEN [@ EXCEPT !.pc = AfterTry("raised"), !.exit = "raised",
                                   !.exc_msg = e[2], !.exc_output = th[t].stdout_capture]
                    ELSE [@ EXCEPT !.pc = AfterTry("base"), !.exit = "base",
                                   !.exc_msg = e[2]]]
    /\ UNCHANGED <<builtins_input, sys_stdout, cwd, console, workers, app_dir_ok, served,
                   active, lifo>>

\* ------------------------------------------------------------------ finally
Last(s) == s[Len(s)]
Without(s, t) == SelectSeq(s, LAMBDA x : x # t)

\* line 101: builtins.input = original_input
RestoredInput(t) == th[t].original_input
RestoreInput(t) ==
    /\ th[t].pc = "l101"
    /\ builtins_input' = RestoredInput(t)
    /\ th' = [th EXCEPT ![t] = [@ EXCEPT !.pc = "l102"]]
    /\ lifo' = (lifo /\ active # <<>> /\ Last(active) = t)
    /\ UNCHANGED <<sys_stdout, cwd, console, workers, app_dir_ok, served, active>>

\* line 102: sys.stdout = old_stdout
RestoredStdoutKept(t) == sys_stdout
RestoredStdout(t) == th[t].old_stdout
RestoreStdout(t) ==
    /\ th[t].pc = "l102"
    /\ sys_stdout' = RestoredStdout(t)
    /\ th' = [th EXCEPT ![t] = [@ EXCEPT !.pc = "l104"]]
    /\ UNCHANGED <<builtins_input, cwd, console, workers, app_dir_ok, served, active, lifo>>

\* lines 103-106: os.chdir(old_cwd), which ends the finally block
RestoreCwd(t) ==
    /\ th[t].pc = "l104"
    /\ cwd' = Chdir(th[t].old_cwd)
    /\ th' = [th EXCEPT ![t] = [@ EXCEPT !.pc = "ret", !.restores = @ + 1]]
    /\ active' = Without(active, t)
    /\ UNCHANGED <<builtins_input, sys_stdout, console, workers, app_dir_ok, served, lifo>>

\* ------------------------------------------------------------------ return
Tuple(output, exps, err) ==
    [kind |-> "tuple", output |-> output, exports |-> exps, error |-> err]
Raised(msg) == [kind |-> "raise", output |-> <<>>, exports |-> <<>>, error |-> ErrStr(msg)]

\* lines 97, 99 and 108: what run_analysis hands to its caller
RunResult(r) ==
    CASE r.exit = "normal" -> Tuple(r.stdout_capture, r.exports, ErrNone)
      [] r.exit = "raised" -> Tuple(r.exc_output, r.exports, ErrStr(r.exc_msg))
      [] r.exit = "invalid" -> Tuple(<<>>, <<>>, ErrInvalidOption(r.option))
      [] OTHER -> Raised(r.exc_msg)

\* lines 181-195: analyze's response; `except Exception` answers 500, and a
\* BaseException that is no Exception leaves analyze without a response
ResponseOf(r, result) ==
    CASE result.kind = "tuple" -> AnalyzeResponse(result.output, result.exports, result.error)
      [] r.exit = "loadfail" -> RespError(500, r.exc_msg)
      [] OTHER -> NoResp

\* an object of a call that has returned
Stale(x, t) == IF x = t THEN "stale" ELSE x

\* run_analysis returns (or raises) to its caller; analyze answers the request
Return(t) ==
    /\ th[t].pc = "ret"
    /\ LET result == RunResult(th[t]) IN
       th' = [v \in Threads |->
                 IF v = t
                 THEN [th[t] EXCEPT
                          !.pc = "done", !.result = result,
                          !.resp = IF th[t].via = "http" THEN ResponseOf(th[t], result)
                                   ELSE NoResp]
                 ELSE [th[v] EXCEPT
                          !.original_input = Stale(@, t), !.old_stdout = Stale(@, t),
                          !.pop_from = Stale(@, t)]]
    /\ builtins_input' = Stale(builtins_input, t)
    /\ sys_stdout' = Stale(sys_stdout, t)
    /\ UNCHANGED <<cwd, console, workers, app_dir_ok, served, active, lifo>>

\* The worker is done with the request: the frames of analyze and
\* run_analysis are gone, and it waits for the next request
NextRequest(t) ==
    /\ th[t].pc = "done"
    /\ th' = [th EXCEPT ![t] = Idle]
    /\ UNCHANGED <<builtins_input, sys_stdout, cwd, console, workers, app_dir_ok, served,
                   active, lifo>>

\* ------------------------------------------------------------------ specification
Next ==
    \E t \in Threads :
        \/ Receive(t)
        \/ CallDirect(t)
        \/ LoadEngine(t)
        \/ SaveInput(t)
        \/ InstallInput(t)
        \/ SaveStdout(t)
        \/ InstallStdout(t)
        \/ SaveCwd(t)
        \/ EnterAppDir(t)
        \/ Dispatch(t)
        \/ EnginePrompt(t)
        \/ MockPop(t)
        \/ EnginePrint(t)
        \/ EngineExport(t)
        \/ EngineReturn(t)
        \/ EngineRaise(t)
        \/ RestoreInput(t)
        \/ RestoreStdout(t)
        \/ RestoreCwd(t)
        \/ Return(t)
        \/ NextRequest(t)

Spec == Init /\ [][Next]_vars
SpecConc == InitConc /\ [][Next]_vars

\* ================================================================== properties
Done(t) == th[t].pc = "done"
\* run_analysis was called for the request or call thread t holds
Called(t) == th[t].pc \notin {"idle", "done"} \/ (Done(t) /\ th[t].exit # "none")
Http(t) == th[t].via = "http"

C2_PartialProgressKept ==
    \A t \in Threads :
        (Done(t) /\ Http(t) /\ th[t].exit = "raised" /\ th[t].exc_msg # ""
            /\ th[t].printed # <<>> /\ th[t].exports # <<>>) =>
            /\ th[t].resp.status = 200
            /\ th[t].resp.output = th[t].printed
            /\ th[t].resp.exports = th[t].exports
            /\ th[t].resp.error.k = "str"

\* ------------------------------------------------------------------ C3
\* C3: when the operation of a validated request raised, whatever it raised,
\* run_analysis returned a triple with a non-empty message and the response
\* is 200 with a non-null error.
C3_FailureNeverSuccess ==
    \A t \in Threads :
        (Done(t) /\ Http(t) /\ th[t].exit \in {"raised", "base"}) =>
            /\ th[t].result.kind = "tuple"
            /\ th[t].result.error.k = "str"
            /\ th[t].result.error.text # ""
            /\ th[t].resp.status = 200
            /\ th[t].resp.error.k = "str"

\* ------------------------------------------------------------------ C4
\* the selector a request names, when it is an integer
Selector(data) ==
    IF data.body = "object" /\ data.option.kind = "num" /\ data.option.n % 10 = 0
    THEN data.option.n \div 10 ELSE -1
\* the parameter `key` of a request: absent when there is no params object
Param(data, key) ==
    IF data.body = "object" /\ data.params.kind = "map" THEN data.params[key] ELSE JAbsent
\* absent, null, empty or whitespace-only
Missing(v) == v.kind \in {"absent", "null"} \/ (v.kind = "str" /\ Strip(v.s) = <<>>)
RequiredKeys(n) ==
    CASE n \in {1, 6} -> {"domain_url"}
      [] n = 2 -> {"niche"}
      [] n = 3 -> {"url"}
      [] n = 4 -> {"keyword"}
      [] n = 5 -> {"domain_url", "theme"}
      [] OTHER -> {}
ValidationError(t) ==
    /\ Done(t)
    /\ th[t].resp.status = 400
    /\ th[t].resp.keys = {"error"}
    /\ th[t].resp.error.k = "str" /\ th[t].resp.error.text # ""
    /\ ~Called(t) /\ ~th[t].loaded

\* C4: a request with a selector in 1..6 that lacks a parameter the selector
\* requires is answered 400 with an error and nothing else, and run_analysis
\* is not called for it.
C4_MissingParamRejected ==
    \A t \in Threads :
        (Http(t) /\ Selector(th[t].data) \in 1..6
            /\ \E key \in RequiredKeys(Selector(th[t].data)) : Missing(Param(th[t].data, key)))
        => ValidationError(t)

\* ------------------------------------------------------------------ C5
\* absent, a number that is no integer of 1..8, null, or text that is no number
OutsideSelectors(data) ==
    \/ data.body = "empty"
    \/ data.option.kind \in {"absent", "null"}
    \/ data.option.kind = "num" /\ Selector(data) \notin 1..8
    \/ data.option.kind = "str" /\ ~PyInt(data.option).ok

\* C5: a request whose option is outside 1..8 is answered 400 with an error
\* and nothing else, and run_analysis is not called for it.
C5_BadSelectorRejected ==
    \A t \in Threads : (Http(t) /\ OutsideSelectors(th[t].data)) => ValidationError(t)

\* ------------------------------------------------------------------ C6
\* a valid selector / parameter combination: an integer selector of 1..8 and,
\* for each required parameter, a string that is not blank
ValidRequest(data) ==
    /\ Selector(data) \in 1..8
    /\ \A key \in RequiredKeys(Selector(data)) :
          Param(data, key).kind = "str" /\ ~Missing(Param(data, key))

Text(data, key) == Strip(Param(data, key).s)
SubFlag(data) ==
    LET v == Param(data, "include_subdomains") IN
    IF (v.kind = "bool" /\ v.n = 1) \/ (v.kind = "str" /\ v.s # <<>>) \/ (v.kind = "num" /\ v.n # 0)
    THEN <<"s">> ELSE <<"n">>

\* the table of the interface, over a rule `Url` for the scheme
Table(data, Url(_)) ==
    CASE Selector(data) \in {1, 6} -> <<Url(Text(data, "domain_url")), SubFlag(data)>>
      [] Selector(data) = 2 -> <<Text(data, "niche")>>
      [] Selector(data) = 3 -> <<Url(Text(data, "url"))>>
      [] Selector(data) = 4 -> <<Text(data, "keyword")>>
      [] Selector(data) = 5 -> <<Url(Text(data, "domain_url")), Text(data, "theme")>>
      [] OTHER -> <<>>

\* "https://" is put in front exactly when the value carries no scheme
UrlWhenNoScheme(s) == IF Head(s) \in Schemes THEN s ELSE <<"https://">> \o s
\* "https://" is put in front exactly when the value does not begin with the
\* lower-case "http://" or "https://"
UrlWhenNotHttp(s) ==
    IF Head(s) = "http://" \/ Head(s) = "https://" THEN s ELSE <<"https://">> \o s

\* C6 as stated: for every valid combination run_analysis is called with the
\* queue of the table, "https://" being added exactly when the value carries
\* no scheme.
C6_QueueMatchesTableAnyScheme ==
    \A t \in Threads :
        (Http(t) /\ ValidRequest(th[t].data)) =>
            /\ Called(t)
            /\ th[t].option = Selector(th[t].data)
            /\ th[t].input_responses = Table(th[t].data, UrlWhenNoScheme)

\* C6 as amended: the same over the whitespace-stripped parameters, "https://"
\* being added exactly when the stripped value does not begin with "http://"
\* or "https://" (a value with another scheme, or with the scheme in upper
\* case, gets the prefix too).
C6_QueueMatchesTable ==
    \A t \in Threads :
        (Http(t) /\ ValidRequest(th[t].data)) =>
            /\ Called(t)
            /\ th[t].option = Selector(th[t].data)
            /\ th[t].input_responses = Table(th[t].data, UrlWhenNotHttp)

\* selector 6 with a padded http:// URL and include_subdomains = true
C6_Witness ==
    \E t \in Threads :
        /\ Http(t) /\ ValidRequest(th[t].data) /\ th[t].pc = "op"
        /\ Selector(th[t].data) = 6
        /\ Param(th[t].data, "domain_url").s = <<"_", "http://", "a">>
        /\ th[t].input_responses = <<<<"http://", "a">>, <<"s">>>>

\* ------------------------------------------------------------------ C7
\* the k-th prompt of the engine of t was answered by the mock_input of t,
\* with Expected(k-th element) or, past the queue, with the empty string
AnswersFollowQueue(t, Expected(_)) ==
    /\ \A k \in 1..Len(th[t].answers) :
          /\ th[t].answers[k].src = t
          /\ th[t].answers[k].val =
                IF k <= Len(th[t].input_responses)
                THEN Expected(th[t].input_responses[k]) ELSE <<>>
    /\ th[t].exc_msg # "pop from an empty deque"
AsIs(s) == s

\* C7 as stated: the k-th prompt receives the k-th queue element, later
\* prompts the empty string, and no prompt raises.
C7_PromptGetsElement == \A t \in Threads : AnswersFollowQueue(t, AsIs)

\* C7 as amended: the k-th prompt receives the k-th queue element with its
\* leading and trailing whitespace removed.
C7_PromptGetsStrippedElement ==
    \A t \in Threads :
        /\ AnswersFollowQueue(t, Strip)
        /\ LET n == Len(th[t].input_responses)
               k == Len(th[t].delivered) IN
           /\ k <= n
           /\ th[t].input_queue = SubSeq(th[t].input_responses, k + 1, n)

\* two prompts on a queue of one padded element
C7_Witness ==
    \E t \in Threads :
        /\ Len(th[t].input_responses) = 1
        /\ th[t].input_responses[1] # Strip(th[t].input_responses[1])
        /\ Len(th[t].answers) = 2

\* ------------------------------------------------------------------ C8
\* C8: run_analysis called with a selector outside 1..8 returns the error
\* triple without the engine module having been loaded or executed and
\* without an operation having been called.
C8_InvalidSelectorBeforeLoad ==
    \A t \in Threads :
        (th[t].via = "direct" /\ th[t].option \notin ValidOptions) =>
            /\ ~th[t].loaded
            /\ ~th[t].op_called
            /\ Done(t) => th[t].result = Tuple(<<>>, <<>>, ErrInvalidOption(th[t].option))

\* ------------------------------------------------------------------ C9
\* C9: of two requests in one process, no prompt of one engine is answered
\* from the other's queue and no text of one engine lands in the other's
\* captured output.
C9_NoCrossTalk ==
    (\A t \in Threads : th[t].via \in {"http", "none"}) =>
        \A t \in Threads :
            /\ \A k \in 1..Len(th[t].answers) : th[t].answers[k].src = t
            /\ \A k \in 1..Len(th[t].stdout_capture) : th[t].stdout_capture[k] = t

\* ------------------------------------------------------------------ C10
BothReturned == served = Cardinality(Threads) /\ \A t \in Threads : th[t].pc \in {"idle", "done"}
ProcessStateOriginal ==
    builtins_input = "real" /\ sys_stdout = "console" /\ cwd = "start"

====
